---- MODULE Spec2Model ----
(***************************************************************************)
(* pi-bno055: the BNO055 register driver (i2c_bno055.c) and the command    *)
(* line program that calls it (getbno055.c), as a state machine.           *)
(*                                                                         *)
(* One process runs at a time.  A step of the model is one statement group *)
(* of the C code: one bus transfer (write() or read() on i2cfd) together   *)
(* with the test of its result and the assignments that follow it, or one  *)
(* sleep.  The sensor is a register file behind the bus; it keeps its      *)
(* registers from one run of the program to the next.                      *)
(*                                                                         *)
(* Bus transfers are modelled as taking no time, sleeps as taking exactly  *)
(* the requested time: this is the least time that can elapse, the worst   *)
(* case for every "at least n ms" statement.                               *)
(***************************************************************************)
EXTENDS Integers, Sequences, FiniteSets, TLC

(***************************************************************************)
(* Bounds of the model                                                     *)
(***************************************************************************)
MaxRuns == 2
MaxExt == 1
TimerCap == 50

(***************************************************************************)
(* Register map and constants of the driver                                *)
(***************************************************************************)
BNO055_CHIP_ID_ADDR == 0
BNO055_PAGE_ID_ADDR == 7
BNO055_TEMP_ADDR == 52
BNO055_CALIB_STAT_ADDR == 53
BNO055_SELFTSTRES_ADDR == 54
BNO055_SYS_STAT_ADDR == 57
BNO055_SYS_ERR_ADDR == 58
BNO055_UNIT_SEL_ADDR == 59
BNO055_OPR_MODE_ADDR == 61
BNO055_PWR_MODE_ADDR == 62
BNO055_SYS_TRIGGER_ADDR == 63
ACCEL_OFFSET_X_LSB_ADDR == 85
BNO055_ID == 160
POWER_MODE_NORMAL == 0
ResetTrigger == 32
CalBlockLen == 18
InfBlockLen == 7

\* settle delays, in milliseconds
ResetSettleMs == 50
ModeSettleMs == 30
PowerSettleMs == 10
BootWaitMs == 1000

(***************************************************************************)
(* C arithmetic                                                            *)
(***************************************************************************)
RECURSIVE BitAnd(_, _)
BitAnd(a, b) ==
  IF a = 0 \/ b = 0 THEN 0
  ELSE (a % 2) * (b % 2) + 2 * BitAnd(a \div 2, b \div 2)

RECURSIVE Pow2(_)
Pow2(k) == IF k = 0 THEN 1 ELSE 2 * Pow2(k - 1)

\* x & m for an int x in two's complement and a mask 0 <= m < 2^30: the bits
\* of x above the mask do not matter, so x is reduced modulo 2^30 first
CAnd(x, m) == BitAnd(x % Pow2(30), m)

\* x >> k for x >= 0
CShr(x, k) == x \div Pow2(k)

\* (x >> k) & 0x01 for an int x of either sign (gcc shifts arithmetically)
CBit(x, k) == (x \div Pow2(k)) % 2

\* the value of a char object holding the wire byte b (0..255): plain char is
\* signed or unsigned as the build decides
AsChar(signed, b) == IF signed /\ b >= 128 THEN b - 256 ELSE b

\* the wire byte (bit pattern) of a char value
AsByte(c) == c % 256

Min(a, b) == IF a < b THEN a ELSE b

(***************************************************************************)
(* Operation modes (bno055_opmode_t) and the names main() accepts for -s   *)
(***************************************************************************)
OpModes == 0..12

ModeNames ==
  {"config", "acconly", "magonly", "gyronly", "accmag", "accgyro", "maggyro",
   "amg", "imu", "compass", "m4g", "ndof", "ndof_fmc"}

\* the enumerators of the mode type, by the name the driver uses for them
ModeValue(name) ==
  CASE name = "config" -> 0
    [] name = "acconly" -> 1
    [] name = "magonly" -> 2
    [] name = "gyronly" -> 3
    [] name = "accmag" -> 4
    [] name = "accgyro" -> 5
    [] name = "maggyro" -> 6
    [] name = "amg" -> 7
    [] name = "imu" -> 8
    [] name = "compass" -> 9
    [] name = "m4g" -> 10
    [] name = "ndof_fmc" -> 11
    [] name = "ndof" -> 12

\* the strcmp chain of main(): the mode a -s argument selects, -1 when the
\* argument falls through to the "invalid operations mode" branch
ParseMode(arg) ==
  CASE arg = "config" -> ModeValue("config")
    [] arg = "acconly" -> ModeValue("acconly")
    [] arg = "magonly" -> ModeValue("magonly")
    [] arg = "gyronly" -> ModeValue("gyronly")
    [] arg = "accmag" -> ModeValue("accmag")
    [] arg = "accgyro" -> ModeValue("accgyro")
    [] arg = "maggyro" -> ModeValue("maggyro")
    [] arg = "amg" -> ModeValue("amg")
    [] arg = "imu" -> ModeValue("imu")
    [] arg = "compass" -> ModeValue("compass")
    [] arg = "m4g" -> ModeValue("m4g")
    [] arg = "ndof" -> ModeValue("ndof")
    [] arg = "dnof_fmc" -> ModeValue("ndof_fmc")
    [] OTHER -> -1

(***************************************************************************)
(* The sensor: a register file                                             *)
(***************************************************************************)
DevRegs == (0..7) \cup (52..63) \cup (85..102)

\* register values after power-on or reset (the defaults the header notes)
DevDefault ==
  [r \in DevRegs |->
     CASE r = 0 -> 160
       [] r = 1 -> 251
       [] r = 2 -> 50
       [] r = 3 -> 15
       [] r = 4 -> 8
       [] r = 5 -> 3
       [] r = BNO055_OPR_MODE_ADDR -> 28
       [] OTHER -> 0]

\* the calibration block of the readme's example run:
\* acc 0 0 2, mag 65448 65460 28, gyr 65535 65535 1
ExampleCalBlock ==
  <<0, 0, 0, 0, 2, 0, 168, 255, 180, 255, 28, 0, 255, 255, 255, 255, 1, 0>>

\* a calibrated sensor as in the readme's example runs
DevExample ==
  [r \in DevRegs |->
     CASE r \in 85..102 -> ExampleCalBlock[r - 84]
       [] r = 4 -> 17
       [] r = 6 -> 21
       [] r = BNO055_OPR_MODE_ADDR -> 11
       [] r = BNO055_CALIB_STAT_ADDR -> 247
       [] r = BNO055_SYS_STAT_ADDR -> 5
       [] r = BNO055_SELFTSTRES_ADDR -> 15
       [] r = BNO055_UNIT_SEL_ADDR -> 128
       [] r = BNO055_TEMP_ADDR -> 31
       [] OTHER -> DevDefault[r]]

\* what the chip-ID register can answer while the sensor is still booting
BootingIds == {0}

\* the reserved upper bits the operating-mode register can read back with
\* (0x1C, the noted default, has bit 4 set)
ReservedHi == {0, 1}

\* changes of the sensor's registers that do not come from this driver
ExtChanges ==
  {<<BNO055_CHIP_ID_ADDR, BNO055_ID>>,
   <<BNO055_OPR_MODE_ADDR, 8>>}

\* the registers of d after the driver's bytes reached the sensor
DevStore(d, bytes, hi) ==
  IF Len(bytes) < 2 \/ bytes[1] \notin DevRegs THEN d
  ELSE IF bytes[1] = BNO055_SYS_TRIGGER_ADDR /\ CAnd(bytes[2], ResetTrigger) # 0
       THEN DevDefault
  ELSE IF bytes[1] = BNO055_OPR_MODE_ADDR
       THEN [d EXCEPT ![bytes[1]] = CAnd(bytes[2], 15) + 16 * hi]
  ELSE [d EXCEPT ![bytes[1]] = bytes[2]]

\* the n bytes the sensor sends from register p on
DevFetch(d, p, n) ==
  [i \in 1..n |-> IF p + i - 1 \in DevRegs THEN d[p + i - 1] ELSE 255]

(***************************************************************************)
(* State                                                                   *)
(***************************************************************************)
VARIABLES
  charSigned,  \* the build: plain char is signed
  rev,         \* the revision of main() that runs: "defaults" or "current"
  args,        \* what parseargs() left in resflag, opr_mode, calflag, datatype
  pc,          \* position of the process
  stack,       \* return positions of the calls in progress
  i2cfd,       \* "none", "bad" (open failed), "unbound" (open, no ioctl done or
               \* ioctl failed), "bound"
  retval,      \* value the last call returned
  res,         \* main()'s res
  newmode,     \* main()'s newmode / set_mode()'s mode argument
  bnoc,        \* struct bnocal of main()
  bnoi,        \* struct bnoinf of main()
  exitcode,    \* exit status of the process once pc is "exited"
  dev,         \* the sensor's registers
  bus,         \* the bus transfers and sleeps of the running process, in order
  timers,      \* ms since the last successful mode / power / reset write
  modeSet,     \* mode last written by set_mode and still in the register, or -1
  runs,        \* processes started so far
  ext,         \* external register changes so far
  calfile,     \* the calibration file of -w: whether it exists, and its bytes
  out          \* what the running process printed of the values it decoded

vars ==
  <<charSigned, rev, args, pc, stack, i2cfd, retval, res, newmode, bnoc, bnoi,
    exitcode, dev, bus, timers, modeSet, runs, ext, calfile, out>>

\* what the locals of main() hold before anything is assigned to them
StackGarbage == {85}

BnocInit(g) ==
  [scal_st |-> g, gcal_st |-> g, acal_st |-> g, mcal_st |-> g,
   aoff_x |-> g, aoff_y |-> g, aoff_z |-> g,
   moff_x |-> g, moff_y |-> g, moff_z |-> g,
   goff_x |-> g, goff_y |-> g, goff_z |-> g]

BnoiInit(g) ==
  [chip_id |-> g, acc_id |-> g, mag_id |-> g, gyr_id |-> g, sw_lsb |-> g,
   sw_msb |-> g, bl_rev |-> g, opr_mode |-> g, sys_stat |-> g, selftest |-> g,
   sys_err |-> g, unitsel |-> g, temp_val |-> g]

\* no calibration file yet
NoFile == [exists |-> FALSE, bytes |-> <<>>]

\* nothing printed yet
NoOutput ==
  [kind |-> "none", opr_mode |-> "", sys_stat |-> "", tests |-> <<>>,
   sys_err |-> "", units |-> <<>>, mag |-> <<>>]

NoArgs == [resflag |-> FALSE, opr_mode |-> "", calflag |-> FALSE, datatype |-> ""]

Init ==
  /\ charSigned \in BOOLEAN
  /\ rev = "current"
  /\ args = NoArgs
  /\ pc = "exited"
  /\ stack = <<>>
  /\ i2cfd = "none"
  /\ retval = 0
  /\ res = -1
  /\ newmode = 0
  /\ bnoc = BnocInit(0)
  /\ bnoi = BnoiInit(0)
  /\ exitcode = 0
  /\ \E base \in {DevDefault, DevExample} :
       \E id \in {BNO055_ID} \cup BootingIds :
         dev = [base EXCEPT ![BNO055_CHIP_ID_ADDR] = id]
  /\ bus = <<>>
  /\ timers = [mode |-> TimerCap, pwr |-> TimerCap, reset |-> TimerCap]
  /\ modeSet = -1
  /\ runs = 0
  /\ ext = 0
  /\ calfile = NoFile
  /\ out = NoOutput

(***************************************************************************)
(* Control: goto, call, return, exit                                       *)
(***************************************************************************)
Goto(l) == pc' = l /\ UNCHANGED <<stack, retval, exitcode>>

Call(f, back) ==
  pc' = f /\ stack' = <<back>> \o stack /\ UNCHANGED <<retval, exitcode>>

Return(v) ==
  retval' = v /\ pc' = Head(stack) /\ stack' = Tail(stack) /\ UNCHANGED exitcode

Exit(code) ==
  pc' = "exited" /\ exitcode' = code /\ UNCHANGED <<stack, retval>>

Fixed == UNCHANGED <<charSigned, rev, args, runs, ext, calfile, out>>

(***************************************************************************)
(* Bus transfers and sleeps                                                *)
(***************************************************************************)
\* what write()/read() of n bytes on i2cfd can return: n, fewer, or -1; a
\* descriptor that was not opened or not bound to the sensor moves nothing
XferResults(n) == IF i2cfd = "bound" THEN {n, n - 1, -1} ELSE {-1}

\* write(i2cfd, bytes, Len(bytes)) returning rv
BusWrite(bytes, rv, hi) ==
  /\ rv \in XferResults(Len(bytes))
  /\ bus' = Append(bus, [op |-> "w", bytes |-> bytes, n |-> Len(bytes), rv |-> rv])
  /\ IF rv = Len(bytes)
     THEN /\ dev' = DevStore(dev, bytes, hi)
          /\ timers' =
               IF Len(bytes) < 2 THEN timers
               ELSE [mode |-> IF bytes[1] = BNO055_OPR_MODE_ADDR THEN 0 ELSE timers.mode,
                     pwr |-> IF bytes[1] = BNO055_PWR_MODE_ADDR THEN 0 ELSE timers.pwr,
                     reset |-> IF bytes[1] = BNO055_SYS_TRIGGER_ADDR THEN 0 ELSE timers.reset]
     ELSE UNCHANGED <<dev, timers>>

\* the register the sensor reads from: the one the last write that reached it
\* named (every read of the driver follows a register select of the same call)
RECURSIVE SelectedBefore(_, _)
SelectedBefore(log, k) ==
  IF k = 0 THEN 0
  ELSE IF log[k].op = "w" /\ log[k].rv = log[k].n THEN log[k].bytes[1]
  ELSE SelectedBefore(log, k - 1)

LastSelected(log) == SelectedBefore(log, Len(log))

\* the bytes a read of n bytes returning rv leaves in the buffer
ReadData(n, rv) ==
  IF rv <= 0 THEN <<>> ELSE SubSeq(DevFetch(dev, LastSelected(bus), n), 1, rv)

\* read(i2cfd, data, n) returning rv
BusRead(n, rv) ==
  /\ rv \in XferResults(n)
  /\ bus' = Append(bus, [op |-> "r", bytes |-> ReadData(n, rv), n |-> n, rv |-> rv])
  /\ UNCHANGED <<dev, timers>>

\* usleep()/sleep() of ms milliseconds
Sleep(ms) ==
  /\ timers' = [f \in DOMAIN timers |-> Min(timers[f] + ms, TimerCap)]
  /\ bus' = Append(bus, [op |-> "sleep", bytes |-> <<>>, n |-> ms, rv |-> 0])
  /\ UNCHANGED dev

NoBus == UNCHANGED <<dev, bus, timers>>

(***************************************************************************)
(* get_i2cbus                                                              *)
(***************************************************************************)
\* a get_i2cbus that reports success whatever open() and ioctl() returned
I2cbusAlways0(fd) == 0

\* return value of get_i2cbus for the outcome of open() and ioctl()
I2cbusResult(fd) == IF fd = "bound" THEN 0 ELSE -1

\* res = get_i2cbus(senaddr, verbose) is done with i2cfd left as fd: main()
\* goes on without testing res
I2cbusReturn(fd) ==
  /\ i2cfd' = fd
  /\ res' = I2cbusResult(fd)
  /\ retval' = I2cbusResult(fd)
  /\ IF rev = "defaults"
     THEN pc' = "set_defaults" /\ stack' = <<"main_defaults_ret">> \o stack
     ELSE pc' = "main_dispatch" /\ UNCHANGED stack

\* i2cfd = open(I2CBUS, O_RDWR): a negative descriptor returns -1 at once
get_i2cbus ==
  /\ pc = "get_i2cbus"
  /\ \E opened \in BOOLEAN :
       IF opened
       THEN /\ i2cfd' = "unbound"
            /\ pc' = "get_i2cbus_ioctl"
            /\ UNCHANGED <<stack, retval, res>>
       ELSE I2cbusReturn("bad")
  /\ UNCHANGED exitcode
  /\ NoBus /\ Fixed
  /\ UNCHANGED <<newmode, bnoc, bnoi, modeSet>>

\* ioctl(i2cfd, I2C_SLAVE, addr) == 0 ? return(0) : return(-1)
get_i2cbus_ioctl ==
  /\ pc = "get_i2cbus_ioctl"
  /\ \E bound \in BOOLEAN : I2cbusReturn(IF bound THEN "bound" ELSE "unbound")
  /\ UNCHANGED exitcode
  /\ NoBus /\ Fixed
  /\ UNCHANGED <<newmode, bnoc, bnoi, modeSet>>

(***************************************************************************)
(* bno_reset                                                               *)
(***************************************************************************)
\* a bno_reset that triggers the self-test (bit 0) instead of the reset
ResetBytesSelfTest == <<BNO055_SYS_TRIGGER_ADDR, 1>>

ResetBytes == <<BNO055_SYS_TRIGGER_ADDR, ResetTrigger>>

bno_reset_write ==
  /\ pc = "bno_reset"
  /\ \E rv \in XferResults(2), hi \in ReservedHi :
       /\ BusWrite(ResetBytes, rv, hi)
       /\ IF rv # 2 THEN Return(-1) ELSE Goto("bno_reset_usleep")
       /\ modeSet' = IF rv = 2 THEN -1 ELSE modeSet
  /\ Fixed
  /\ UNCHANGED <<i2cfd, res, newmode, bnoc, bnoi>>

\* bno_reset without its usleep(): the driver variant that returns at once
bno_reset_nosleep ==
  /\ pc = "bno_reset_usleep"
  /\ Return(0)
  /\ NoBus /\ Fixed
  /\ UNCHANGED <<i2cfd, res, newmode, bnoc, bnoi, modeSet>>

bno_reset_usleep ==
  /\ pc = "bno_reset_usleep"
  /\ Sleep(ResetSettleMs)
  /\ Return(0)
  /\ Fixed
  /\ UNCHANGED <<i2cfd, res, newmode, bnoc, bnoi, modeSet>>

(***************************************************************************)
(* set_mode                                                                *)
(***************************************************************************)
\* a set_mode that addresses the power-mode register instead
ModeBytesWrongReg(mode) == <<BNO055_PWR_MODE_ADDR, AsByte(mode)>>

\* data[0], data[1] of set_mode for its mode argument
ModeBytes(mode) == <<BNO055_OPR_MODE_ADDR, AsByte(mode)>>

\* a set_mode that goes on to its settle delay whatever write() returned
set_mode_write_settle ==
  /\ pc = "set_mode"
  /\ \E rv \in XferResults(2), hi \in ReservedHi :
       /\ BusWrite(ModeBytes(newmode), rv, hi)
       /\ Goto("set_mode_usleep")
       /\ modeSet' = IF rv = 2 THEN newmode ELSE modeSet
  /\ Fixed
  /\ UNCHANGED <<i2cfd, res, newmode, bnoc, bnoi>>

set_mode_write ==
  /\ pc = "set_mode"
  /\ \E rv \in XferResults(2), hi \in ReservedHi :
       /\ BusWrite(ModeBytes(newmode), rv, hi)
       /\ IF rv # 2 THEN Return(-1) ELSE Goto("set_mode_usleep")
       /\ modeSet' = IF rv = 2 THEN newmode ELSE modeSet
  /\ Fixed
  /\ UNCHANGED <<i2cfd, res, newmode, bnoc, bnoi>>

\* set_mode without its usleep(): the driver variant that returns at once
set_mode_nosleep ==
  /\ pc = "set_mode_usleep"
  /\ Return(0)
  /\ NoBus /\ Fixed
  /\ UNCHANGED <<i2cfd, res, newmode, bnoc, bnoi, modeSet>>

set_mode_usleep ==
  /\ pc = "set_mode_usleep"
  /\ Sleep(ModeSettleMs)
  /\ Return(0)
  /\ Fixed
  /\ UNCHANGED <<i2cfd, res, newmode, bnoc, bnoi, modeSet>>

(***************************************************************************)
(* set_defaults                                                            *)
(***************************************************************************)
\* an identity check that accepts every byte
IdMismatchNever(signed, b) == FALSE

\* data[0] != BNO055_ID for the byte b just read into the char data[0]
IdMismatch(signed, b) == AsChar(signed, b) # BNO055_ID

\* a register select that goes on to the read whatever write() returned
SelectIgnore(reg, next) ==
  \E rv \in XferResults(1) :
    /\ BusWrite(<<reg>>, rv, 0)
    /\ Goto(next)

\* a register select that takes only a negative result of write() for a failure
SelectLoose(reg, next) ==
  \E rv \in XferResults(1) :
    /\ BusWrite(<<reg>>, rv, 0)
    /\ IF rv < 0 THEN Return(-1) ELSE Goto(next)

\* register select: write(i2cfd, &reg, 1); on failure the function returns -1
Select(reg, next) ==
  \E rv \in XferResults(1) :
    /\ BusWrite(<<reg>>, rv, 0)
    /\ IF rv # 1 THEN Return(-1) ELSE Goto(next)

set_defaults_select1 ==
  /\ pc = "set_defaults"
  /\ Select(BNO055_CHIP_ID_ADDR, "set_defaults_read1")
  /\ Fixed
  /\ UNCHANGED <<i2cfd, res, newmode, bnoc, bnoi, modeSet>>

set_defaults_read1 ==
  /\ pc = "set_defaults_read1"
  /\ \E rv \in XferResults(1) :
       /\ BusRead(1, rv)
       /\ IF rv # 1 THEN Return(-1)
          ELSE IF IdMismatch(charSigned, ReadData(1, rv)[1])
               THEN Goto("set_defaults_sleep")
               ELSE Goto("set_defaults_select2")
  /\ Fixed
  /\ UNCHANGED <<i2cfd, res, newmode, bnoc, bnoi, modeSet>>

set_defaults_sleep ==
  /\ pc = "set_defaults_sleep"
  /\ Sleep(BootWaitMs)
  /\ Goto("set_defaults_select2")
  /\ Fixed
  /\ UNCHANGED <<i2cfd, res, newmode, bnoc, bnoi, modeSet>>

set_defaults_select2 ==
  /\ pc = "set_defaults_select2"
  /\ Select(BNO055_CHIP_ID_ADDR, "set_defaults_read2")
  /\ Fixed
  /\ UNCHANGED <<i2cfd, res, newmode, bnoc, bnoi, modeSet>>

set_defaults_read2 ==
  /\ pc = "set_defaults_read2"
  /\ \E rv \in XferResults(1) :
       /\ BusRead(1, rv)
       /\ IF rv # 1 THEN Return(-1) /\ UNCHANGED newmode
          ELSE IF IdMismatch(charSigned, ReadData(1, rv)[1])
               THEN Exit(-1) /\ UNCHANGED newmode
               ELSE /\ Call("set_mode", "set_defaults_mode_ret")
                    /\ newmode' = ModeValue("ndof")
  /\ Fixed
  /\ UNCHANGED <<i2cfd, res, bnoc, bnoi, modeSet>>

set_defaults_mode_ret ==
  /\ pc = "set_defaults_mode_ret"
  /\ IF retval # 0 THEN Exit(-1) ELSE Goto("set_defaults_pwr")
  /\ NoBus /\ Fixed
  /\ UNCHANGED <<i2cfd, res, newmode, bnoc, bnoi, modeSet>>

PwrBytes == <<BNO055_PWR_MODE_ADDR, POWER_MODE_NORMAL>>

\* a set_defaults that selects register page 1
PageBytesPage1 == <<BNO055_PAGE_ID_ADDR, 1>>

PageBytes == <<BNO055_PAGE_ID_ADDR, 0>>

set_defaults_pwr ==
  /\ pc = "set_defaults_pwr"
  /\ \E rv \in XferResults(2) :
       /\ BusWrite(PwrBytes, rv, 0)
       /\ IF rv # 2 THEN Return(-1) ELSE Goto("set_defaults_usleep")
  /\ Fixed
  /\ UNCHANGED <<i2cfd, res, newmode, bnoc, bnoi, modeSet>>

\* set_defaults without the usleep() after the power-mode write
set_defaults_nosleep ==
  /\ pc = "set_defaults_usleep"
  /\ Goto("set_defaults_page")
  /\ NoBus /\ Fixed
  /\ UNCHANGED <<i2cfd, res, newmode, bnoc, bnoi, modeSet>>

set_defaults_usleep ==
  /\ pc = "set_defaults_usleep"
  /\ Sleep(PowerSettleMs)
  /\ Goto("set_defaults_page")
  /\ Fixed
  /\ UNCHANGED <<i2cfd, res, newmode, bnoc, bnoi, modeSet>>

set_defaults_page ==
  /\ pc = "set_defaults_page"
  /\ \E rv \in XferResults(2) :
       /\ BusWrite(PageBytes, rv, 0)
       /\ IF rv # 2 THEN Return(-1) ELSE Return(0)
  /\ Fixed
  /\ UNCHANGED <<i2cfd, res, newmode, bnoc, bnoi, modeSet>>

(***************************************************************************)
(* stat_cal                                                                *)
(***************************************************************************)
\* a decoder that takes the gyroscope field one bit too low (bits 4-3)
StatCalFieldsShifted(data) ==
  [scal_st |-> CShr(CAnd(data, 192), 6),
   gcal_st |-> CShr(CAnd(data, 24), 3),
   acal_st |-> CShr(CAnd(data, 12), 2),
   mcal_st |-> CAnd(data, 3)]

\* the four status fields stat_cal extracts from the char data
StatCalFields(data) ==
  [scal_st |-> CShr(CAnd(data, 192), 6),
   gcal_st |-> CShr(CAnd(data, 48), 4),
   acal_st |-> CShr(CAnd(data, 12), 2),
   mcal_st |-> CAnd(data, 3)]

\* a stat_cal that clears the whole structure before it stores the status
StatCalStoreCleared(c, data) ==
  [BnocInit(0) EXCEPT !.scal_st = StatCalFields(data).scal_st,
                      !.gcal_st = StatCalFields(data).gcal_st,
                      !.acal_st = StatCalFields(data).acal_st,
                      !.mcal_st = StatCalFields(data).mcal_st]

\* *bno_ptr after stat_cal decoded the char data into it
StatCalStore(c, data) ==
  [c EXCEPT !.scal_st = StatCalFields(data).scal_st,
            !.gcal_st = StatCalFields(data).gcal_st,
            !.acal_st = StatCalFields(data).acal_st,
            !.mcal_st = StatCalFields(data).mcal_st]

stat_cal_select ==
  /\ pc = "stat_cal"
  /\ Select(BNO055_CALIB_STAT_ADDR, "stat_cal_read")
  /\ Fixed
  /\ UNCHANGED <<i2cfd, res, newmode, bnoc, bnoi, modeSet>>

stat_cal_read ==
  /\ pc = "stat_cal_read"
  /\ \E rv \in XferResults(1) :
       /\ BusRead(1, rv)
       /\ IF rv # 1 THEN Return(-1) /\ UNCHANGED bnoc
          ELSE /\ bnoc' = StatCalStore(bnoc, AsChar(charSigned, ReadData(1, rv)[1]))
               /\ Return(0)
  /\ Fixed
  /\ UNCHANGED <<i2cfd, res, newmode, bnoi, modeSet>>

(***************************************************************************)
(* read_cal                                                                *)
(***************************************************************************)
\* data[lo] + data[hi] * 256 on two char values
Offset16(lo, hi) == lo + hi * 256

\* *bno_ptr after read_cal decoded the 18 wire bytes d into it
ReadCalStore(c, signed, d) ==
  [c EXCEPT !.aoff_x = Offset16(AsChar(signed, d[1]), AsChar(signed, d[2])),
            !.aoff_y = Offset16(AsChar(signed, d[3]), AsChar(signed, d[4])),
            !.aoff_z = Offset16(AsChar(signed, d[5]), AsChar(signed, d[6])),
            !.moff_x = Offset16(AsChar(signed, d[7]), AsChar(signed, d[8])),
            !.moff_y = Offset16(AsChar(signed, d[9]), AsChar(signed, d[10])),
            !.moff_z = Offset16(AsChar(signed, d[11]), AsChar(signed, d[12])),
            !.goff_x = Offset16(AsChar(signed, d[13]), AsChar(signed, d[14])),
            !.goff_y = Offset16(AsChar(signed, d[15]), AsChar(signed, d[16])),
            !.goff_z = Offset16(AsChar(signed, d[17]), AsChar(signed, d[18]))]

read_cal_select ==
  /\ pc = "read_cal"
  /\ Select(ACCEL_OFFSET_X_LSB_ADDR, "read_cal_read")
  /\ Fixed
  /\ UNCHANGED <<i2cfd, res, newmode, bnoc, bnoi, modeSet>>

read_cal_read ==
  /\ pc = "read_cal_read"
  /\ \E rv \in XferResults(CalBlockLen) :
       /\ BusRead(CalBlockLen, rv)
       /\ IF rv # CalBlockLen THEN Return(-1) /\ UNCHANGED bnoc
          ELSE /\ bnoc' = ReadCalStore(bnoc, charSigned, ReadData(CalBlockLen, rv))
               /\ Return(0)
  /\ Fixed
  /\ UNCHANGED <<i2cfd, res, newmode, bnoi, modeSet>>

(***************************************************************************)
(* decode_units: prints five unit labels for its int argument.  main()     *)
(* does not call it; a caller passes it the unit byte read_inf stored.     *)
(***************************************************************************)
\* the labels printed after "Acceleration Unit: ", "Gyroscope Unit: ",
\* "Euler Unit: ", "Temperature Unit: " and "Orientation Mode: "
DecodeUnits(unit_sel) ==
  <<IF CBit(unit_sel, 0) = 1 THEN "mg" ELSE "m/s2",
    IF CBit(unit_sel, 1) = 1 THEN "rps" ELSE "dps",
    IF CBit(unit_sel, 2) = 1 THEN "Radians" ELSE "Degrees",
    IF CBit(unit_sel, 4) = 1 THEN "Fahrenheit" ELSE "Celsius",
    IF CBit(unit_sel, 3) = 1 THEN "Android" ELSE "Windows">>

decode_units ==
  /\ pc = "decode_units"
  /\ out' = [NoOutput EXCEPT !.kind = "units", !.units = DecodeUnits(bnoi.unitsel)]
  /\ Return(0)
  /\ NoBus
  /\ UNCHANGED <<charSigned, rev, args, runs, ext, calfile>>
  /\ UNCHANGED <<i2cfd, res, newmode, bnoc, bnoi, modeSet>>

(***************************************************************************)
(* read_inf                                                                *)
(***************************************************************************)
\* *bno_ptr after the 7-byte burst d from register 0x00 was stored
InfBurstStore(i, signed, d) ==
  [i EXCEPT !.chip_id = AsChar(signed, d[1]),
            !.acc_id = AsChar(signed, d[2]),
            !.mag_id = AsChar(signed, d[3]),
            !.gyr_id = AsChar(signed, d[4]),
            !.sw_lsb = AsChar(signed, d[5]),
            !.sw_msb = AsChar(signed, d[6]),
            !.bl_rev = AsChar(signed, d[7])]

\* a mode query that keeps the reserved upper bits of the register byte
OprModeRaw(data) == AsByte(data)

\* a read_inf that reports the mode this process last asked set_mode for
OprModeCached(data) == newmode

\* data[0] & 0x0F: the operating mode of the char data[0]
OprModeOf(data) == CAnd(data, 15)

\* the self-test store without the 4-bit mask
SelfTestRaw(data) == AsByte(data)

\* data[0] & 0x0F: the self-test result of the char data[0]
SelfTestOf(data) == CAnd(data, 15)

\* the six single-byte reads of read_inf, in the order of the code
InfSingles ==
  <<[reg |-> BNO055_OPR_MODE_ADDR, sel |-> "read_inf_sel_opr", rd |-> "read_inf_rd_opr"],
    [reg |-> BNO055_SYS_STAT_ADDR, sel |-> "read_inf_sel_stat", rd |-> "read_inf_rd_stat"],
    [reg |-> BNO055_SELFTSTRES_ADDR, sel |-> "read_inf_sel_test", rd |-> "read_inf_rd_test"],
    [reg |-> BNO055_SYS_ERR_ADDR, sel |-> "read_inf_sel_err", rd |-> "read_inf_rd_err"],
    [reg |-> BNO055_UNIT_SEL_ADDR, sel |-> "read_inf_sel_unit", rd |-> "read_inf_rd_unit"],
    [reg |-> BNO055_TEMP_ADDR, sel |-> "read_inf_sel_temp", rd |-> "read_inf_rd_temp"]>>

\* *bno_ptr after the k-th single-byte read stored the char data
InfSingleStore(i, k, data) ==
  CASE k = 1 -> [i EXCEPT !.opr_mode = OprModeOf(data)]
    [] k = 2 -> [i EXCEPT !.sys_stat = data]
    [] k = 3 -> [i EXCEPT !.selftest = SelfTestOf(data)]
    [] k = 4 -> [i EXCEPT !.sys_err = data]
    [] k = 5 -> [i EXCEPT !.unitsel = data]
    [] k = 6 -> [i EXCEPT !.temp_val = data]

read_inf_select0 ==
  /\ pc = "read_inf"
  /\ Select(BNO055_CHIP_ID_ADDR, "read_inf_burst")
  /\ Fixed
  /\ UNCHANGED <<i2cfd, res, newmode, bnoc, bnoi, modeSet>>

read_inf_burst ==
  /\ pc = "read_inf_burst"
  /\ \E rv \in XferResults(InfBlockLen) :
       /\ BusRead(InfBlockLen, rv)
       /\ IF rv # InfBlockLen THEN Return(-1) /\ UNCHANGED bnoi
          ELSE /\ bnoi' = InfBurstStore(bnoi, charSigned, ReadData(InfBlockLen, rv))
               /\ Goto(InfSingles[1].sel)
  /\ Fixed
  /\ UNCHANGED <<i2cfd, res, newmode, bnoc, modeSet>>

read_inf_select ==
  /\ \E k \in 1..Len(InfSingles) :
       /\ pc = InfSingles[k].sel
       /\ Select(InfSingles[k].reg, InfSingles[k].rd)
  /\ Fixed
  /\ UNCHANGED <<i2cfd, res, newmode, bnoc, bnoi, modeSet>>

read_inf_read ==
  /\ \E k \in 1..Len(InfSingles) :
       /\ pc = InfSingles[k].rd
       /\ \E rv \in XferResults(1) :
            /\ BusRead(1, rv)
            /\ IF rv # 1 THEN Return(-1) /\ UNCHANGED bnoi
               ELSE /\ bnoi' = InfSingleStore(bnoi, k, AsChar(charSigned, ReadData(1, rv)[1]))
                    /\ IF k < Len(InfSingles) THEN Goto(InfSingles[k + 1].sel)
                       ELSE Return(0)
  /\ Fixed
  /\ UNCHANGED <<i2cfd, res, newmode, bnoc, modeSet>>

(***************************************************************************)
(* read_mag                                                                *)
(***************************************************************************)
\* the body is return(0): nothing is read, nothing is stored through the
\* three pointers, so magx, magy, magz of main() stay as they were
read_mag ==
  /\ pc = "read_mag"
  /\ Return(0)
  /\ NoBus /\ Fixed
  /\ UNCHANGED <<i2cfd, res, newmode, bnoc, bnoi, modeSet>>

(***************************************************************************)
(* main                                                                    *)
(***************************************************************************)
\* the argument sets parseargs() can leave behind, per revision of main()
ArgSets(r) ==
  IF r = "defaults"
  THEN [resflag : {FALSE}, opr_mode : {""}, calflag : BOOLEAN,
        datatype : {"cal", "inf", "mag", "acc"}]
  ELSE [resflag : BOOLEAN, opr_mode : {"", "ndof", "nofusion"}, calflag : BOOLEAN,
        datatype : {"", "cal", "inf", "mag"}]

\* the argument sets of the current revision that set a mode (-s with each
\* name of the usage text, and with the name the strcmp chain has for
\* ndof_fmc), reset the sensor (-r) or query it (-t inf)
ModeArgSets ==
  [resflag : BOOLEAN, opr_mode : {""} \cup ModeNames \cup {"dnof_fmc"},
   calflag : {FALSE}, datatype : {"", "inf"}]

\* a process of revision r starts with the arguments a: parseargs() is done,
\* main() is about to open the bus
Start(r, a) ==
  /\ pc = "exited"
  /\ runs < MaxRuns
  /\ runs' = runs + 1
  /\ rev' = r
  /\ args' = a
  /\ \E g \in StackGarbage :
       /\ bnoc' = BnocInit(g)
       /\ bnoi' = BnoiInit(g)
  /\ pc' = "get_i2cbus"
  /\ stack' = <<>>
  /\ i2cfd' = "none"
  /\ retval' = 0
  /\ res' = -1
  /\ newmode' = 0
  /\ exitcode' = 0
  /\ bus' = <<>>
  /\ out' = NoOutput
  /\ UNCHANGED <<charSigned, dev, timers, modeSet, ext, calfile>>

Launch == \E r \in {"defaults", "current"} : \E a \in ArgSets(r) : Start(r, a)

LaunchModes == \E a \in ModeArgSets : Start("current", a)

\* res = set_defaults(verbose), in the revision that calls it
main_defaults_ret ==
  /\ pc = "main_defaults_ret"
  /\ res' = retval
  /\ Goto("main_dispatch")
  /\ NoBus /\ Fixed
  /\ UNCHANGED <<i2cfd, newmode, bnoc, bnoi, modeSet>>

\* a main() that tests the -s argument before the -r flag
main_dispatch_mode_first ==
  /\ pc = "main_dispatch"
  /\ IF args.opr_mode # ""
     THEN IF ParseMode(args.opr_mode) = -1
          THEN Exit(-1) /\ UNCHANGED newmode
          ELSE Call("set_mode", "main_mode_ret") /\ newmode' = ParseMode(args.opr_mode)
     ELSE IF args.resflag
     THEN Call("bno_reset", "main_reset_ret") /\ UNCHANGED newmode
     ELSE IF args.calflag
     THEN Call("stat_cal", "main_w_stat_ret") /\ UNCHANGED newmode
     ELSE IF args.datatype = "cal"
     THEN Call("stat_cal", "main_cal_stat_ret") /\ UNCHANGED newmode
     ELSE IF args.datatype = "inf"
     THEN Call("read_inf", "main_inf_ret") /\ UNCHANGED newmode
     ELSE IF args.datatype = "mag"
     THEN Call("read_mag", "main_mag_ret") /\ UNCHANGED newmode
     ELSE Exit(0) /\ UNCHANGED newmode
  /\ NoBus /\ Fixed
  /\ UNCHANGED <<i2cfd, res, bnoc, bnoi, modeSet>>

\* the chain of if-blocks of main(), each ending in exit()
main_dispatch ==
  /\ pc = "main_dispatch"
  /\ IF args.resflag
     THEN Call("bno_reset", "main_reset_ret") /\ UNCHANGED newmode
     ELSE IF args.opr_mode # ""
     THEN IF ParseMode(args.opr_mode) = -1
          THEN Exit(-1) /\ UNCHANGED newmode
          ELSE Call("set_mode", "main_mode_ret") /\ newmode' = ParseMode(args.opr_mode)
     ELSE IF args.calflag
     THEN Call("stat_cal", "main_w_stat_ret") /\ UNCHANGED newmode
     ELSE IF args.datatype = "cal"
     THEN Call("stat_cal", "main_cal_stat_ret") /\ UNCHANGED newmode
     ELSE IF args.datatype = "inf"
     THEN Call("read_inf", "main_inf_ret") /\ UNCHANGED newmode
     ELSE IF args.datatype = "mag"
     THEN Call("read_mag", "main_mag_ret") /\ UNCHANGED newmode
     ELSE Exit(0) /\ UNCHANGED newmode
  /\ NoBus /\ Fixed
  /\ UNCHANGED <<i2cfd, res, bnoc, bnoi, modeSet>>

\* switch(bnoi.opr_mode): the label printed after "Operations Mode = ";
\* the switch has no default, so other values print nothing
OprModeLabel(v) ==
  CASE v = 0 -> "CONFIG"
    [] v = 1 -> "ACCONLY"
    [] v = 2 -> "MAGONLY"
    [] v = 3 -> "GYRONLY"
    [] v = 4 -> "ACCMAG"
    [] v = 5 -> "ACCGYRO"
    [] v = 6 -> "MAGGYRO"
    [] v = 7 -> "AMG"
    [] v = 8 -> "IMU"
    [] v = 9 -> "COMPASS"
    [] v = 10 -> "M4G"
    [] v = 11 -> "NDOF_FMC_OFF"
    [] v = 12 -> "NDOF"
    [] OTHER -> ""

\* switch(bnoi.sys_stat): the label printed after "System Status Code = "
SysStatLabel(v) ==
  CASE v = 0 -> "Idle"
    [] v = 1 -> "System Error"
    [] v = 2 -> "Initializing Peripherals"
    [] v = 3 -> "System Initalization"
    [] v = 4 -> "Executing Self-Test"
    [] v = 5 -> "Sensor running with fusion algorithm"
    [] v = 6 -> "System running without fusion algorithm"
    [] OTHER -> ""

\* switch(bnoi.sys_err): the label printed after " System Error Code = "
SysErrLabel(v) ==
  CASE v = 0 -> "No Error"
    [] v = 1 -> "Peripheral initialization error"
    [] v = 2 -> "System initializion error"
    [] v = 3 -> "Selftest result failed"
    [] v = 4 -> "Register map value out of range"
    [] v = 5 -> "Register map address out of range"
    [] v = 6 -> "Register map write error"
    [] v = 7 -> "BNO low power mode not available"
    [] v = 8 -> "Accelerometer power mode not available"
    [] v = 9 -> "Fusion algorithm configuration error"
    [] v = 10 -> "Sensor configuration error"
    [] OTHER -> ""

\* the four self-test lines: accelerometer, magnetometer, gyroscope, MCU
TestLabels(selftest) ==
  [k \in 1..4 |-> IF CBit(selftest, k - 1) = 1 THEN "OK" ELSE "FAIL"]

\* the five unit lines of the info output: accelerometer, gyroscope, Euler,
\* temperature unit and orientation mode
MainUnits(unitsel) ==
  <<IF CBit(unitsel, 0) = 1 THEN "mg" ELSE "m/s2",
    IF CBit(unitsel, 1) = 1 THEN "rps" ELSE "dps",
    IF CBit(unitsel, 2) = 1 THEN "Radians" ELSE "Degrees",
    IF CBit(unitsel, 4) = 1 THEN "Fahrenheit" ELSE "Celsius",
    IF CBit(unitsel, 7) = 1 THEN "Android" ELSE "Windows">>

\* what -t inf prints of the decoded struct bnoinf
InfOutput(i) ==
  [kind |-> "inf",
   opr_mode |-> OprModeLabel(i.opr_mode),
   sys_stat |-> SysStatLabel(i.sys_stat),
   tests |-> TestLabels(i.selftest),
   sys_err |-> SysErrLabel(i.sys_err),
   units |-> MainUnits(i.unitsel),
   mag |-> <<>>]

\* what -t mag prints: the floats magx, magy, magz of main()
MagOutput(magx, magy, magz) ==
  [NoOutput EXCEPT !.kind = "mag", !.mag = <<magx, magy, magz>>]

\* res = f(...); if(res != 0) exit(-1); [print the result;] exit(0);
main_last_ret ==
  /\ pc \in {"main_reset_ret", "main_mode_ret", "main_cal_cal_ret", "main_inf_ret",
             "main_mag_ret"}
  /\ res' = retval
  /\ IF retval # 0 THEN Exit(-1) ELSE Exit(0)
  /\ \E g \in StackGarbage :
       out' = IF pc = "main_inf_ret" /\ retval = 0 THEN InfOutput(bnoi)
              ELSE IF pc = "main_mag_ret" /\ retval = 0 THEN MagOutput(g, g, g)
              ELSE out
  /\ NoBus
  /\ UNCHANGED <<charSigned, rev, args, runs, ext, calfile>>
  /\ UNCHANGED <<i2cfd, newmode, bnoc, bnoi, modeSet>>

\* res = stat_cal(&bnoc, verbose); if(res != 0) exit(-1); then read_cal
main_stat_ret ==
  /\ pc \in {"main_w_stat_ret", "main_cal_stat_ret"}
  /\ res' = retval
  /\ IF retval # 0 THEN Exit(-1)
     ELSE Call("read_cal", IF pc = "main_w_stat_ret" THEN "main_w_cal_ret"
                           ELSE "main_cal_cal_ret")
  /\ NoBus /\ Fixed
  /\ UNCHANGED <<i2cfd, newmode, bnoc, bnoi, modeSet>>

\* -w: res = read_cal(&bnoc, verbose); if(res != 0) exit(-1); then fopen
main_w_cal_ret ==
  /\ pc = "main_w_cal_ret"
  /\ res' = retval
  /\ IF retval # 0 THEN Exit(-1) ELSE Goto("main_w_fopen")
  /\ NoBus /\ Fixed
  /\ UNCHANGED <<i2cfd, newmode, bnoc, bnoi, modeSet>>

\* the bytes main() writes to the stream fopen() returned before exit(0)
\* closes it: there is no fwrite(), fprintf() or fputc() on it
CalFileBytes(c) == <<>>

\* -w: fopen(calfile, "w") fails, or creates the file or truncates it to
\* length zero; then exit
main_w_fopen ==
  /\ pc = "main_w_fopen"
  /\ \E opened \in BOOLEAN :
       IF opened
       THEN calfile' = [exists |-> TRUE, bytes |-> CalFileBytes(bnoc)] /\ Exit(0)
       ELSE UNCHANGED calfile /\ Exit(-1)
  /\ NoBus
  /\ UNCHANGED <<charSigned, rev, args, runs, ext, out>>
  /\ UNCHANGED <<i2cfd, res, newmode, bnoc, bnoi, modeSet>>

(***************************************************************************)
(* The sensor's own changes                                                *)
(***************************************************************************)
External ==
  /\ ext < MaxExt
  /\ ext' = ext + 1
  /\ \E ch \in ExtChanges :
       /\ dev[ch[1]] # ch[2]
       /\ dev' = [dev EXCEPT ![ch[1]] = ch[2]]
       /\ modeSet' = IF ch[1] = BNO055_OPR_MODE_ADDR THEN -1 ELSE modeSet
  /\ UNCHANGED <<charSigned, rev, args, pc, stack, i2cfd, retval, res, newmode,
                 bnoc, bnoi, exitcode, bus, timers, runs, calfile, out>>

Next ==
  \/ Launch
  \/ get_i2cbus
  \/ get_i2cbus_ioctl
  \/ main_defaults_ret
  \/ main_dispatch
  \/ main_last_ret
  \/ main_stat_ret
  \/ main_w_cal_ret
  \/ main_w_fopen
  \/ bno_reset_write
  \/ bno_reset_usleep
  \/ set_mode_write
  \/ set_mode_usleep
  \/ set_defaults_select1
  \/ set_defaults_read1
  \/ set_defaults_sleep
  \/ set_defaults_select2
  \/ set_defaults_read2
  \/ set_defaults_mode_ret
  \/ set_defaults_pwr
  \/ set_defaults_usleep
  \/ set_defaults_page
  \/ stat_cal_select
  \/ stat_cal_read
  \/ read_cal_select
  \/ read_cal_read
  \/ read_inf_select0
  \/ read_inf_burst
  \/ read_inf_select
  \/ read_inf_read
  \/ read_mag
  \/ External

Spec == Init /\ [][Next]_vars

\* the current revision used to reset the sensor, set its mode and query it
NextModes ==
  \/ LaunchModes
  \/ get_i2cbus
  \/ get_i2cbus_ioctl
  \/ main_dispatch
  \/ main_last_ret
  \/ bno_reset_write
  \/ bno_reset_usleep
  \/ set_mode_write
  \/ set_mode_usleep
  \/ read_inf_select0
  \/ read_inf_burst
  \/ read_inf_select
  \/ read_inf_read
  \/ External

SpecModes == Init /\ [][NextModes]_vars

(***************************************************************************)
(* The decoders on every register byte: a process of the current revision  *)
(* that opened and bound the bus is about to call stat_cal (-t cal) or     *)
(* read_inf (-t inf), and the sensor holds any byte in the register that   *)
(* is decoded.                                                             *)
(***************************************************************************)
Bytes == 0..255

\* the (low, high) byte pairs of one offset: every low byte with high bytes
\* at the ends and the middle of the range, and the other way round
OffsetPairs == (Bytes \X {0, 127, 128, 255}) \cup ({0, 255} \X Bytes)

\* the register of the low byte of the k-th offset (k in 1..9)
OffsetLsbAddr(k) == ACCEL_OFFSET_X_LSB_ADDR + 2 * (k - 1)

\* the registers read_inf reads one byte from
InfRegs == {InfSingles[k].reg : k \in 1..Len(InfSingles)}

\* what is asked for ("cal": -t cal, "inf": -t inf, "units": a call of
\* decode_units) and the registers the sensor holds
DecodeInputs ==
  {<<"cal", [DevDefault EXCEPT ![BNO055_CALIB_STAT_ADDR] = b]>> : b \in Bytes}
  \cup {<<"inf", [DevDefault EXCEPT ![rb[1]] = rb[2]]>> : rb \in InfRegs \X Bytes}
  \cup {<<"units", [DevDefault EXCEPT ![BNO055_UNIT_SEL_ADDR] = b]>> : b \in Bytes}
  \cup {<<"cal", [DevDefault EXCEPT ![OffsetLsbAddr(kp[1])] = kp[2][1],
                                    ![OffsetLsbAddr(kp[1]) + 1] = kp[2][2]]>> :
          kp \in (1..(CalBlockLen \div 2)) \X OffsetPairs}

InitDecode ==
  /\ charSigned \in BOOLEAN
  /\ rev = "current"
  /\ \E in \in DecodeInputs, g \in StackGarbage :
       /\ args = [NoArgs EXCEPT !.datatype = IF in[1] = "units" THEN "" ELSE in[1]]
       /\ dev = in[2]
       /\ pc = CASE in[1] = "cal" -> "stat_cal"
                 [] in[1] = "inf" -> "read_inf"
                 [] in[1] = "units" -> "decode_units"
       /\ stack = CASE in[1] = "cal" -> <<"main_cal_stat_ret">>
                    [] in[1] = "inf" -> <<"main_inf_ret">>
                    [] in[1] = "units" -> <<"caller">>
       /\ bnoc = BnocInit(g)
       /\ bnoi = IF in[1] = "units"
                 THEN [BnoiInit(g) EXCEPT
                         !.unitsel = AsChar(charSigned, in[2][BNO055_UNIT_SEL_ADDR])]
                 ELSE BnoiInit(g)
  /\ i2cfd = "bound"
  /\ retval = 0
  /\ res = 0
  /\ newmode = 0
  /\ exitcode = 0
  /\ bus = <<>>
  /\ timers = [mode |-> TimerCap, pwr |-> TimerCap, reset |-> TimerCap]
  /\ modeSet = -1
  /\ runs = 1
  /\ ext = 0
  /\ calfile = NoFile
  /\ out = NoOutput

NextDecode ==
  \/ stat_cal_select
  \/ stat_cal_read
  \/ main_stat_ret
  \/ read_cal_select
  \/ read_cal_read
  \/ decode_units
  \/ read_inf_select0
  \/ read_inf_burst
  \/ read_inf_select
  \/ read_inf_read
  \/ main_last_ret

SpecDecode == InitDecode /\ [][NextDecode]_vars

(***************************************************************************)
(* Reading the log of the running process                                  *)
(***************************************************************************)
\* entry i of log is a 1-byte read of the chip-ID register: a read of the
\* identity check of set_defaults
IdReadAt(log, i) ==
  /\ log[i].op = "r"
  /\ log[i].n = 1
  /\ SelectedBefore(log, i - 1) = BNO055_CHIP_ID_ADDR

IdReads(log) == {i \in 1..Len(log) : IdReadAt(log, i)}

\* the first and the second chip-ID read among the entries ids (0: none)
FirstOf(ids) == IF ids = {} THEN 0 ELSE CHOOSE i \in ids : \A j \in ids : j >= i

SecondOf(ids) == FirstOf(ids \ {FirstOf(ids)})

\* the read at entry i delivered its byte, and the byte is / is not 0xA0
GotId(log, i) == i > 0 /\ log[i].rv = 1 /\ log[i].bytes[1] = 160

GotOther(log, i) == i > 0 /\ log[i].rv = 1 /\ log[i].bytes[1] # 160

\* the step appends one bus transfer to the log
NewXfer == Len(bus') = Len(bus) + 1 /\ bus'[Len(bus')].op # "sleep"

\* the process stopped with the fatal status right after entry i
FatalAt(i) == pc = "exited" /\ exitcode = -1 /\ Len(bus) = i

(***************************************************************************)
(* C1: identity check of set_defaults.  When the first chip-ID read        *)
(* returns a byte other than 0xA0 the driver waits and reads the chip-ID   *)
(* register once more; a second byte other than 0xA0 is fatal, a second    *)
(* byte 0xA0 passes; no process reads the chip ID more than twice.         *)
(***************************************************************************)
C1_IdentityRetry ==
  LET ids == IdReads(bus)
      i == FirstOf(ids)
      j == SecondOf(ids)
  IN /\ Cardinality(ids) <= 2
     /\ GotOther(bus, i) =>
          /\ Len(bus) = i => pc = "set_defaults_sleep"
          /\ Len(bus) > i => bus[i + 1].op = "sleep"
          /\ Len(bus) > i + 1 =>
               bus[i + 2].op = "w" /\ bus[i + 2].bytes = <<BNO055_CHIP_ID_ADDR>>
          /\ Len(bus) > i + 2 /\ bus[i + 2].rv = 1 => j = i + 3
          /\ GotOther(bus, j) => FatalAt(j)
          /\ GotId(bus, j) => ~(pc = "exited" /\ Len(bus) = j)

(***************************************************************************)
(* C2: when the chip-ID byte differs from 0xA0 on both reads, the process  *)
(* ends with the fatal status and its log ends with the second read: no    *)
(* bus transfer follows.                                                   *)
(***************************************************************************)
BothIdsWrong(log) ==
  LET ids == IdReads(log)
  IN GotOther(log, FirstOf(ids)) /\ GotOther(log, SecondOf(ids))

C2_DeviceNotPresent == BothIdsWrong(bus) => FatalAt(SecondOf(IdReads(bus)))

C2_Witness == BothIdsWrong(bus) /\ pc = "exited"

(***************************************************************************)
(* C3: a register operation (bno_reset, set_mode, stat_cal, read_cal,      *)
(* read_inf) is called only when get_i2cbus returned 0 and the identity    *)
(* check of this process passed.                                           *)
(***************************************************************************)
RegisterOps == {"bno_reset", "set_mode", "stat_cal", "read_cal", "read_inf"}

IdentityPassed(log) == GotId(log, SecondOf(IdReads(log)))

C3_SessionFirst ==
  pc \in RegisterOps => i2cfd = "bound" /\ IdentityPassed(bus)

(***************************************************************************)
(* Steps of the called functions, as seen from the log and the timers       *)
(***************************************************************************)
\* the step appends exactly the transfer "write the two bytes, 2 requested"
WritesPair(bytes) ==
  /\ Len(bus') = Len(bus) + 1
  /\ SubSeq(bus', 1, Len(bus)) = bus
  /\ bus'[Len(bus')].op = "w"
  /\ bus'[Len(bus')].n = 2
  /\ bus'[Len(bus')].bytes = bytes

\* the step returns 0 from a function whose positions are pcs
Returns0From(pcs) ==
  /\ pc \in pcs
  /\ pc' \notin pcs
  /\ stack' = Tail(stack)
  /\ retval' = 0

\* entry i of log is a write of two bytes to register reg that went through
WroteReg(log, i, reg) ==
  log[i].op = "w" /\ log[i].n = 2 /\ log[i].rv = 2 /\ log[i].bytes[1] = reg

(***************************************************************************)
(* C5: set_mode(m) writes [0x3D, value(m)] as one transfer; after a        *)
(* successful mode write no bus transfer is issued before 30 ms have       *)
(* passed, and set_mode returns 0 only once they have.                     *)
(***************************************************************************)
C5_ModeSettle ==
  [][/\ (pc = "set_mode" /\ pc' # pc) => WritesPair(<<61, newmode>>)
     /\ NewXfer => timers.mode >= 30
     /\ Returns0From({"set_mode", "set_mode_usleep"}) =>
          /\ timers'.mode >= 30
          /\ WroteReg(bus', Len(bus') - 1, 61)
          /\ bus'[Len(bus')].op = "sleep"]_vars

C5_Witness ==
  /\ pc = "main_mode_ret"
  /\ retval = 0
  /\ Len(bus) = 2
  /\ WroteReg(bus, 1, 61)
  /\ bus[1].bytes[2] = newmode
  /\ bus[2].op = "sleep"
  /\ timers.mode = 30

(***************************************************************************)
(* C6: bno_reset writes the reset trigger 0x20 to the system-trigger       *)
(* register 0x3F and, when the write went through, returns only after      *)
(* 50 ms have passed since the write.                                      *)
(***************************************************************************)
C6_ResetSettle ==
  [][/\ (pc = "bno_reset" /\ pc' # pc) => WritesPair(<<63, 32>>)
     /\ (pc = "bno_reset" /\ pc' # pc /\ bus'[Len(bus')].rv = 2) =>
          pc' = "bno_reset_usleep" /\ stack' = stack
     /\ Returns0From({"bno_reset", "bno_reset_usleep"}) =>
          /\ timers'.reset >= 50
          /\ WroteReg(bus', Len(bus') - 1, 63)
          /\ bus'[Len(bus')].op = "sleep"]_vars

C6_Witness ==
  /\ pc = "main_reset_ret"
  /\ retval = 0
  /\ Len(bus) = 2
  /\ WroteReg(bus, 1, 63)
  /\ bus[1].bytes[2] = 32
  /\ bus[2].op = "sleep"
  /\ timers.reset = 50

(***************************************************************************)
(* C7: set_defaults writes 0x00 to the power-mode register 0x3E; after a   *)
(* successful power-mode write no bus transfer is issued before 10 ms have *)
(* passed, and the next transfer is the write of page 0 to the page-select *)
(* register 0x07.                                                          *)
(***************************************************************************)
\* in log, every power-mode write that went through is followed by a sleep of
\* at least 10 ms and then by the page-0 write, as far as the log goes
PwrThenPage(log) ==
  \A i \in 1..Len(log) :
    WroteReg(log, i, 62) =>
      /\ Len(log) > i => log[i + 1].op = "sleep" /\ log[i + 1].n >= 10
      /\ Len(log) > i + 1 =>
           /\ log[i + 2].op = "w"
           /\ log[i + 2].n = 2
           /\ log[i + 2].bytes = <<7, 0>>

C7_PowerSettle ==
  [][/\ (pc = "set_defaults_pwr" /\ pc' # pc) => WritesPair(<<62, 0>>)
     /\ NewXfer => timers.pwr >= 10
     /\ PwrThenPage(bus')]_vars

C7_Witness ==
  /\ Len(bus) >= 3
  /\ WroteReg(bus, Len(bus) - 2, 62)
  /\ bus[Len(bus) - 1].op = "sleep"
  /\ WroteReg(bus, Len(bus), 7)
  /\ timers.pwr = 10
  /\ pc = "main_defaults_ret"
  /\ retval = 0

(***************************************************************************)
(* C4: for each of the 13 modes m, once set_mode(m) wrote the mode and the *)
(* settle delay has passed, the opr_mode that read_inf next stores is m,   *)
(* as long as nothing else (a reset, the sensor itself) changed the        *)
(* operating-mode register since.                                          *)
(***************************************************************************)
\* the step is read_inf storing the operating mode it just read
StoresOprMode == pc = "read_inf_rd_opr" /\ pc' = "read_inf_sel_stat"

C4_ModeRoundTrip ==
  [][(StoresOprMode /\ modeSet # -1) =>
       /\ modeSet \in 0..12
       /\ timers.mode >= 30
       /\ bnoi'.opr_mode = modeSet]_vars

\* ndof_fmc was set by an earlier process, the register reads back with a
\* reserved bit set, and read_inf reported ndof_fmc
C4_Witness ==
  /\ pc = "read_inf_sel_stat"
  /\ runs = 2
  /\ modeSet = 11
  /\ dev[61] = 27
  /\ bnoi.opr_mode = 11

(***************************************************************************)
(* C8: for every byte b of the operating-mode register, the opr_mode that  *)
(* read_inf stores is b masked with 0x0F: it lies in 0..15 and does not    *)
(* depend on the upper four bits of b.                                     *)
(***************************************************************************)
C8_ModeMask ==
  [][StoresOprMode =>
       /\ bus'[Len(bus')].bytes = <<dev[61]>>
       /\ bnoi'.opr_mode \in 0..15
       /\ bnoi'.opr_mode = dev[61] % 16]_vars

C8_Witness ==
  /\ charSigned
  /\ pc = "read_inf_sel_stat"
  /\ dev[61] = 252
  /\ bnoi.opr_mode = 12

(***************************************************************************)
(* C9: for every calibration-status byte b, stat_cal stores four fields    *)
(* in 0..3 that are bits 7-6 (system), 5-4 (gyroscope), 3-2                *)
(* (accelerometer) and 1-0 (magnetometer) of b; the fields are a function  *)
(* of b alone, so decoding the same byte again gives the same fields.      *)
(***************************************************************************)
\* the step is stat_cal returning 0
StatCalReturns0 == pc = "stat_cal_read" /\ pc' # pc /\ retval' = 0

C9_CalibStatus ==
  [][StatCalReturns0 =>
       /\ bus'[Len(bus')].bytes = <<dev[53]>>
       /\ bnoc'.scal_st = (dev[53] \div 64) % 4
       /\ bnoc'.gcal_st = (dev[53] \div 16) % 4
       /\ bnoc'.acal_st = (dev[53] \div 4) % 4
       /\ bnoc'.mcal_st = dev[53] % 4
       /\ {bnoc'.scal_st, bnoc'.gcal_st, bnoc'.acal_st, bnoc'.mcal_st} \subseteq 0..3]_vars

\* the byte 0b11001101 was decoded to system 3, gyroscope 0, accelerometer 3,
\* magnetometer 1
C9_Witness ==
  /\ pc = "main_cal_stat_ret"
  /\ retval = 0
  /\ dev[53] = 205
  /\ bnoc.scal_st = 3
  /\ bnoc.gcal_st = 0
  /\ bnoc.acal_st = 3
  /\ bnoc.mcal_st = 1

(***************************************************************************)
(* C10: for every 18-byte block of the sensor, read_cal stores in each of  *)
(* the nine offsets low_byte + high_byte * 256 with both bytes taken as    *)
(* 0..255, a value in 0..65535.                                            *)
(***************************************************************************)
\* the step is read_cal returning 0
ReadCalReturns0 == pc = "read_cal_read" /\ pc' # pc /\ retval' = 0

\* the nine offsets of a struct bnocal, in register order
OffsetsOf(c) ==
  <<c.aoff_x, c.aoff_y, c.aoff_z, c.moff_x, c.moff_y, c.moff_z,
    c.goff_x, c.goff_y, c.goff_z>>

C10_UnsignedOffsets ==
  [][ReadCalReturns0 =>
       \A k \in 1..9 :
         /\ OffsetsOf(bnoc')[k] = dev[83 + 2 * k] + dev[84 + 2 * k] * 256
         /\ OffsetsOf(bnoc')[k] \in 0..65535]_vars

(***************************************************************************)
(* C11: the offsets the driver hands out are the signed reading of the raw *)
(* 16-bit register values: raw 65535 is -1, raw 32768 is -32768, raw 0 is  *)
(* 0, raw 32767 is 32767 (raw values from 32768 on are raw - 65536).       *)
(***************************************************************************)
\* the two's-complement reading of a raw 16-bit value
Signed16(raw) == IF raw >= 32768 THEN raw - 65536 ELSE raw

\* the raw 16-bit value of the k-th offset in the registers d
RawOffset(d, k) == d[83 + 2 * k] + d[84 + 2 * k] * 256

C11_SignedOffsets ==
  [][ReadCalReturns0 =>
       \A k \in 1..9 : OffsetsOf(bnoc')[k] = Signed16(RawOffset(dev, k))]_vars

(***************************************************************************)
(* The -w run: calibration status and offsets read, file opened, exit(0)   *)
(***************************************************************************)
\* the process was a -w run and ended with exit(0)
WroteCalFile ==
  /\ pc = "exited"
  /\ exitcode = 0
  /\ args.calflag
  /\ ~args.resflag
  /\ args.opr_mode = ""

\* the 18 bytes read_cal read in this run: its read is the last transfer
BlockRead(log) == log[Len(log)].bytes

(***************************************************************************)
(* C12: the offset block that a -w run encoded into the calibration file   *)
(* decodes (low byte + high byte * 256 on each pair) to the raw register   *)
(* values the run read, whatever the block holds.                          *)
(***************************************************************************)
C12_EncodeDecode ==
  WroteCalFile =>
    /\ Len(calfile.bytes) >= 18
    /\ \A k \in 1..9 :
         Offset16(calfile.bytes[2 * k - 1], calfile.bytes[2 * k])
           = Offset16(BlockRead(bus)[2 * k - 1], BlockRead(bus)[2 * k])

(***************************************************************************)
(* C13: after a -w run that ended with exit(0) the calibration file exists *)
(* and holds exactly the offset block in register order: the 18 bytes the  *)
(* run read (22 with radii), nothing before them.                          *)
(***************************************************************************)
C13_PersistedRecord ==
  WroteCalFile =>
    /\ calfile.exists
    /\ Len(calfile.bytes) \in {18, 22}
    /\ SubSeq(calfile.bytes, 1, 18) = BlockRead(bus)

(***************************************************************************)
(* Positions of the reading operations, and failed transfers               *)
(***************************************************************************)
StatCalPcs == {"stat_cal", "stat_cal_read"}

ReadCalPcs == {"read_cal", "read_cal_read"}

ReadInfPcs ==
  {"read_inf", "read_inf_burst"}
    \cup {InfSingles[k].sel : k \in 1..6} \cup {InfSingles[k].rd : k \in 1..6}

\* the step is a bus transfer that moved fewer bytes than requested
ShortXfer == NewXfer /\ bus'[Len(bus')].rv < bus'[Len(bus')].n

\* the step returns v to the caller of the function being executed
ReturnsValue(v) == stack # <<>> /\ pc' = Head(stack) /\ stack' = Tail(stack) /\ retval' = v

(***************************************************************************)
(* C14: when a transfer inside stat_cal, read_cal or read_inf moves fewer  *)
(* bytes than requested, the call returns -1 and the caller's structure    *)
(* holds what it held when the call began: no field was modified.          *)
(* (main() passes read_inf a structure fresh from its stack; stat_cal and  *)
(* read_cal store nothing before their last transfer.)                     *)
(***************************************************************************)
C14_NoPartialResult ==
  [][/\ (pc \in {"stat_cal", "read_cal"} /\ pc' # pc) => bnoc' = bnoc
     /\ (ShortXfer /\ pc \in StatCalPcs \cup ReadCalPcs) =>
          ReturnsValue(-1) /\ bnoc' = bnoc
     /\ (ShortXfer /\ pc \in ReadInfPcs) =>
          /\ ReturnsValue(-1)
          /\ \E g \in StackGarbage : bnoi' = BnoiInit(g)]_vars

(***************************************************************************)
(* C15: stat_cal changes only the four status fields and leaves the nine   *)
(* offsets as they were; read_cal changes only the nine offsets and leaves *)
(* the four status fields as they were.  Stated per step, so it holds for  *)
(* the calls in any order and number.                                      *)
(***************************************************************************)
\* the four status fields of a struct bnocal
StatusOf(c) == <<c.scal_st, c.gcal_st, c.acal_st, c.mcal_st>>

C15_StatusOffsetsIndependent ==
  [][/\ pc \in StatCalPcs => OffsetsOf(bnoc') = OffsetsOf(bnoc)
     /\ pc \in ReadCalPcs => StatusOf(bnoc') = StatusOf(bnoc)]_vars

\* -t cal on the readme's sensor: stat_cal stored 3 3 1 3 over what the stack
\* held and read_cal then stored the nine offsets beside them
C15_Witness ==
  /\ ~charSigned
  /\ pc = "main_cal_cal_ret"
  /\ retval = 0
  /\ StatusOf(bnoc) = <<3, 3, 1, 3>>
  /\ OffsetsOf(bnoc) = <<0, 0, 2, 65448, 65460, 28, 65535, 65535, 1>>

(***************************************************************************)
(* C16: a transfer that moved another number of bytes than requested makes *)
(* the operation it belongs to return -1 at once; a transfer that moved    *)
(* the requested number never does; and an operation returns 0 only when   *)
(* each of its transfers moved exactly the requested number.               *)
(***************************************************************************)
\* the step is a bus transfer whose result differs from the requested count
FailedXfer == NewXfer /\ bus'[Len(bus')].rv # bus'[Len(bus')].n

\* the log entries an operation has made when it returns 0 from position p
\* (set_defaults: at least these; one more when it waited for the boot)
OpEntries(p) ==
  CASE p = "stat_cal_read" -> 2
    [] p = "read_cal_read" -> 2
    [] p = "read_inf_rd_temp" -> 14
    [] p = "set_mode_usleep" -> 2
    [] p = "bno_reset_usleep" -> 2
    [] p = "set_defaults_page" -> 9
    [] OTHER -> 0

\* the last k entries of log are sleeps and transfers of the requested count
LastAllExact(log, k) ==
  /\ Len(log) >= k
  /\ \A i \in (Len(log) - k + 1)..Len(log) :
       log[i].op = "sleep" \/ log[i].rv = log[i].n

C16_ExactCount ==
  [][/\ FailedXfer => ReturnsValue(-1)
     /\ (NewXfer /\ ~FailedXfer) => ~ReturnsValue(-1)
     /\ (ReturnsValue(0) /\ pc # "read_mag") =>
          /\ OpEntries(pc) > 0
          /\ LastAllExact(bus', OpEntries(pc))]_vars

\* set_mode's write of two bytes moved one byte, and main() got -1
C16_Witness ==
  /\ pc = "main_mode_ret"
  /\ retval = -1
  /\ Len(bus) = 1
  /\ bus[1].n = 2
  /\ bus[1].rv = 1


(***************************************************************************)
(* The information read and its decoding                                   *)
(***************************************************************************)
\* read_inf has returned 0 to main
ReadInfReturned0 == pc = "main_inf_ret" /\ retval = 0

\* log entry e selects register reg with a completed 1-byte write
IsSelect(e, reg) == e.op = "w" /\ e.bytes = <<reg>> /\ e.n = 1 /\ e.rv = 1

\* log entry e is a completed read of the n bytes held from register reg on
IsRead(e, reg, n) ==
  /\ e.op = "r" /\ e.n = n /\ e.rv = n
  /\ e.bytes = [j \in 1..n |-> dev[reg + j - 1]]

\* C17: when read_inf succeeds, the bus has seen exactly a select of register
\* 0x00 and a 7-byte read, then a select and a 1-byte read of 0x3D, 0x39,
\* 0x36, 0x3A, 0x3B and 0x34 in this order; the stored operating mode and
\* self-test result are the bytes read modulo 16 and every other field holds
\* the byte read
C17_InfSequence ==
  ReadInfReturned0 =>
    /\ Len(bus) = 14
    /\ IsSelect(bus[1], 0) /\ IsRead(bus[2], 0, 7)
    /\ \A k \in 1..6 :
         LET reg == <<61, 57, 54, 58, 59, 52>>[k]
         IN  IsSelect(bus[2 * k + 1], reg) /\ IsRead(bus[2 * k + 2], reg, 1)
    /\ bnoi.opr_mode = dev[61] % 16
    /\ bnoi.selftest = dev[54] % 16
    /\ <<AsByte(bnoi.chip_id), AsByte(bnoi.acc_id), AsByte(bnoi.mag_id),
         AsByte(bnoi.gyr_id), AsByte(bnoi.sw_lsb), AsByte(bnoi.sw_msb),
         AsByte(bnoi.bl_rev)>> = [j \in 1..7 |-> dev[j - 1]]
    /\ AsByte(bnoi.sys_stat) = dev[57]
    /\ AsByte(bnoi.sys_err) = dev[58]
    /\ AsByte(bnoi.unitsel) = dev[59]
    /\ AsByte(bnoi.temp_val) = dev[52]

C17_Witness == ReadInfReturned0 /\ dev[54] = 255 /\ bnoi.selftest = 15 /\ charSigned

\* the -t inf run has ended
InfRunEnded == pc = "exited" /\ args.datatype = "inf"

SysStatLabels == {SysStatLabel(v) : v \in 0..6}

SysErrLabels == {SysErrLabel(v) : v \in 0..10}

\* C18: a -t inf run that read a system-status byte outside 0..6 or a
\* system-error byte outside 0..10 ends with an error exit or prints an
\* out-of-range report in place of the label: never nothing, never one of
\* the labels of the valid codes
C18_OutOfRangeSurfaced ==
  InfRunEnded /\ Len(bus) = 14 /\ bus[14].rv = 1 =>
    /\ dev[57] \notin 0..6 =>
         exitcode # 0 \/ out.sys_stat \notin {""} \cup SysStatLabels
    /\ dev[58] \notin 0..10 =>
         exitcode # 0 \/ out.sys_err \notin {""} \cup SysErrLabels

\* the five labels the unit-selection byte b stands for
UnitLabels(b) ==
  <<IF BitAnd(b, 1) # 0 THEN "mg" ELSE "m/s2",
    IF BitAnd(b, 2) # 0 THEN "rps" ELSE "dps",
    IF BitAnd(b, 4) # 0 THEN "Radians" ELSE "Degrees",
    IF BitAnd(b, 16) # 0 THEN "Fahrenheit" ELSE "Celsius",
    IF BitAnd(b, 128) # 0 THEN "Android" ELSE "Windows">>

\* C19: the five unit labels printed, by decode_units and by the info output
\* alike, are those of bits 0, 1, 2, 4 and 7 of the unit-selection byte
C19_UnitDecode ==
  out.kind \in {"inf", "units"} => out.units = UnitLabels(dev[59])

\* C20: a step of a driver operation that sees a failed transfer, and the
\* step of set_defaults that sees set_mode fail, returns -1 to the caller
C20_FailureReturned ==
  [][ /\ FailedXfer => ReturnsValue(-1)
      /\ pc = "set_defaults_mode_ret" /\ retval # 0 => ReturnsValue(-1) ]_vars


(***************************************************************************)
(* No retries                                                              *)
(***************************************************************************)
\* how many writes of the log are as long as its last entry and carry the
\* same register address in their first byte
TimesIssued(log) ==
  LET e == log[Len(log)]
  IN  Cardinality({k \in 1..Len(log) :
                     log[k].op = "w" /\ log[k].n = e.n /\ log[k].bytes[1] = e.bytes[1]})

\* the write just logged names a register no earlier write of this process
\* named, but for the chip-ID register: selected twice by the identity
\* check and once by the burst of read_inf
NothingRepeated(log) ==
  log[Len(log)].op = "w" =>
    TimesIssued(log) <= (IF log[Len(log)].bytes = <<0>>
                         THEN (IF rev = "defaults" THEN 3 ELSE 1)
                         ELSE 1)

\* C21: the step of a driver operation that sees a transfer fail returns -1
\* with that transfer as its last: nothing further on the bus, no delay, the
\* settle timers and the sensor as they were; and no process transfers to or
\* from the same register twice, except for the chip-ID register
C21_NoRetry ==
  [][ /\ FailedXfer =>
           /\ ReturnsValue(-1)
           /\ Len(bus') = Len(bus) + 1
           /\ timers' = timers /\ dev' = dev
      /\ NewXfer => NothingRepeated(bus') ]_vars

C21_Witness ==
  /\ pc = "main_inf_ret" /\ retval = -1 /\ Len(bus) = 5
  /\ bus[5].op = "r" /\ bus[5].rv = 0 /\ bus[4].rv = 1


(***************************************************************************)
(* The bus session                                                         *)
(***************************************************************************)
\* get_i2cbus returns to main in this step
I2cbusReturns == pc \in {"get_i2cbus", "get_i2cbus_ioctl"} /\ pc' \in {"set_defaults", "main_dispatch"}

\* C22: get_i2cbus returns 0 or -1, and 0 exactly when the bus was opened and
\* the sensor's address bound; a failed open returns -1 from the open itself,
\* with no ioctl() made, and a failed ioctl() returns -1
C22_SessionResult ==
  [][ /\ I2cbusReturns =>
           /\ retval' \in {0, -1}
           /\ retval' = 0 <=> i2cfd' = "bound"
           /\ i2cfd' = "bad" <=> pc = "get_i2cbus"
      /\ pc = "get_i2cbus" /\ pc' = "get_i2cbus_ioctl" => i2cfd' # "bad" ]_vars

C22_Witness == pc = "main_dispatch" /\ i2cfd = "unbound" /\ retval = -1 /\ res = -1


(***************************************************************************)
(* The mode names of -s                                                    *)
(***************************************************************************)
\* main() decides what to do with the -s argument in this step
DispatchesMode ==
  pc = "main_dispatch" /\ pc' # pc /\ ~args.resflag /\ args.opr_mode # ""

\* C23: -s with one of the 13 documented names calls set_mode with the mode
\* of that name, a value in 0..12 that no other name has; -s with any other
\* name ends the program as an invalid operations mode
C23_ModeNames ==
  [][ DispatchesMode =>
        IF args.opr_mode \in ModeNames
        THEN /\ pc' = "set_mode"
             /\ newmode' = ModeValue(args.opr_mode)
             /\ newmode' \in 0..12
             /\ \A other \in ModeNames \ {args.opr_mode} : ModeValue(other) # newmode'
        ELSE pc' = "exited" /\ exitcode' = -1 ]_vars


(***************************************************************************)
(* No local mirror of the sensor                                           *)
(***************************************************************************)
\* the bytes of the transfer this step logged
NewBytes == bus'[Len(bus')].bytes

\* C24: what read_inf, stat_cal and read_cal store comes from the bytes the
\* sensor held when the call read them: the mode reported is the low 4 bits
\* of register 0x3D then, the calibration levels are the bit pairs of
\* register 0x35 then, the offsets' low bytes are those of 0x55.. then
C24_NoMirror ==
  [][ /\ StoresOprMode =>
           NewBytes = <<dev[61]>> /\ bnoi'.opr_mode = dev[61] % 16
      /\ StatCalReturns0 =>
           /\ NewBytes = <<dev[53]>>
           /\ bnoc'.scal_st = dev[53] \div 64
           /\ bnoc'.gcal_st = (dev[53] \div 16) % 4
           /\ bnoc'.acal_st = (dev[53] \div 4) % 4
           /\ bnoc'.mcal_st = dev[53] % 4
      /\ ReadCalReturns0 =>
           /\ NewBytes = [j \in 1..18 |-> dev[84 + j]]
           /\ \A k \in 1..9 : OffsetsOf(bnoc')[k] % 256 = dev[83 + 2 * k] ]_vars

\* an earlier process set a mode, the register changed by itself, and
\* read_inf reported the register's mode
C24_Witness ==
  /\ pc = "main_inf_ret" /\ retval = 0 /\ ext = 1
  /\ timers.mode = 30 /\ dev[61] = 8 /\ bnoi.opr_mode = 8


(***************************************************************************)
(* The order of set_defaults                                               *)
(***************************************************************************)
IsTransfer(e) == e.op # "sleep"

\* the bus transfers of the log, without the sleeps
Transfers(log) == SelectSeq(log, IsTransfer)

\* entry e is the completed write of bytes
IsWrite(e, bytes) == e.op = "w" /\ e.bytes = bytes /\ e.n = Len(bytes) /\ e.rv = e.n

\* entry e is a completed 1-byte read that got the chip ID
IsIdRead(e) == e.op = "r" /\ e.n = 1 /\ e.rv = 1 /\ e.bytes = <<160>>

\* C25: when set_defaults has returned 0 the last five transfers on the bus
\* are the select of register 0x00, the read of the chip ID 0xA0, the writes
\* of [0x3D, 0x0C], [0x3E, 0x00] and [0x07, 0x00]; and in the revision that
\* calls set_defaults every 2-byte write comes after a chip-ID read of 0xA0
\* that was the fourth transfer
C25_DefaultsOrder ==
  /\ pc = "main_defaults_ret" /\ retval = 0 =>
       LET t == Transfers(bus)
           n == Len(t)
       IN  /\ n = 7
           /\ IsWrite(t[n - 4], <<0>>)
           /\ IsIdRead(t[n - 3])
           /\ IsWrite(t[n - 2], <<61, 12>>)
           /\ IsWrite(t[n - 1], <<62, 0>>)
           /\ IsWrite(t[n], <<7, 0>>)
  /\ rev = "defaults" =>
       \A i \in 1..Len(bus) :
         bus[i].op = "w" /\ bus[i].n = 2 =>
           LET t == Transfers(SubSeq(bus, 1, i - 1))
           IN  Len(t) >= 4 /\ IsWrite(t[3], <<0>>) /\ IsIdRead(t[4])

C25_Witness ==
  /\ pc = "main_defaults_ret" /\ retval = 0
  /\ Len(bus) = 10 /\ bus[3].op = "sleep" /\ bus[3].n = 1000


(***************************************************************************)
(* Register select before every read                                       *)
(***************************************************************************)
\* C26: every read on the bus comes right after a completed 1-byte write of
\* the address of one of the registers the driver reads, and a select that
\* failed is the last transfer of its call: no read follows it
C26_SelectBeforeRead ==
  \A i \in 1..Len(bus) :
    /\ bus[i].op = "r" =>
         /\ i > 1
         /\ bus[i - 1].op = "w" /\ bus[i - 1].n = 1 /\ bus[i - 1].rv = 1
         /\ bus[i - 1].bytes[1] \in {0, 53, 85, 61, 57, 54, 58, 59, 52}
    /\ bus[i].op = "w" /\ bus[i].n = 1 /\ bus[i].rv # 1 /\ i < Len(bus) =>
         bus[i + 1].op # "r"

C26_Witness ==
  /\ pc = "main_inf_ret" /\ retval = -1 /\ Len(bus) = 3
  /\ bus[2].op = "r" /\ bus[2].rv = 7 /\ bus[3].op = "w" /\ bus[3].rv = 0


(***************************************************************************)
(* The two chip-ID reads of set_defaults                                   *)
(***************************************************************************)
\* the step is the first / the second chip-ID read of set_defaults and the
\* read completed
FirstIdRead == pc = "set_defaults_read1" /\ NewXfer /\ bus'[Len(bus')].rv = 1

SecondIdRead == pc = "set_defaults_read2" /\ NewXfer /\ bus'[Len(bus')].rv = 1

\* C27: after a completed first chip-ID read set_defaults always goes on to
\* the second one, directly when the first byte was 0xA0 and after the wait
\* otherwise; a second byte other than 0xA0 ends the program as "not
\* present", whatever the first byte was
C27_SecondReadDecides ==
  [][ /\ FirstIdRead =>
           pc' = (IF NewBytes = <<160>> THEN "set_defaults_select2"
                  ELSE "set_defaults_sleep")
      /\ pc = "set_defaults_sleep" /\ pc' # pc => pc' = "set_defaults_select2"
      /\ SecondIdRead /\ NewBytes # <<160>> => pc' = "exited" /\ exitcode' = -1 ]_vars


(***************************************************************************)
(* One action per run                                                      *)
(***************************************************************************)
\* the action the options a stand for: -r before -s before -w before -t
Chosen(a) ==
  IF a.resflag THEN "reset"
  ELSE IF a.opr_mode # "" THEN "mode"
  ELSE IF a.calflag THEN "w"
  ELSE IF a.datatype \in {"cal", "inf", "mag"} THEN a.datatype
  ELSE "none"

\* entry e of the bus log is one the action act makes
BelongsTo(e, act) ==
  CASE act = "reset" ->
         \/ e.op = "w" /\ e.bytes = <<63, 32>>
         \/ e.op = "sleep" /\ e.n = 50
    [] act = "mode" ->
         \/ e.op = "w" /\ e.n = 2 /\ e.bytes[1] = 61
         \/ e.op = "sleep" /\ e.n = 30
    [] act \in {"w", "cal"} ->
         \/ e.op = "w" /\ e.n = 1 /\ e.bytes[1] \in {53, 85}
         \/ e.op = "r" /\ e.n \in {1, 18}
    [] act = "inf" ->
         \/ e.op = "w" /\ e.n = 1 /\ e.bytes[1] \in {0, 61, 57, 54, 58, 59, 52}
         \/ e.op = "r" /\ e.n \in {1, 7}
    [] OTHER -> FALSE

\* the positions of main() from which the program only exits
LastPositions ==
  {"main_reset_ret", "main_mode_ret", "main_cal_cal_ret", "main_inf_ret",
   "main_mag_ret", "main_w_fopen"}

C29_RegistersWritten ==
  \A i \in 1..Len(bus) :
    bus[i].op = "w" =>
      \/ bus[i].n = 1 /\ Len(bus[i].bytes) = 1
      \/ /\ bus[i].n = 2 /\ Len(bus[i].bytes) = 2
         /\ \/ bus[i].bytes[1] = 61 /\ bus[i].bytes[2] \in 0..12
            \/ bus[i].bytes = <<62, 0>>
            \/ bus[i].bytes = <<7, 0>>
            \/ bus[i].bytes = <<63, 32>>

\* set_defaults has made its three writes
C29_Witness ==
  /\ pc = "main_defaults_ret" /\ retval = 0 /\ Len(bus) = 9
  /\ bus[5].bytes = <<61, 12>> /\ bus[7].bytes = <<62, 0>> /\ bus[9].bytes = <<7, 0>>
  /\ dev[61] % 16 = 12 /\ dev[62] = 0 /\ dev[7] = 0


(***************************************************************************)
(* The magnetometer                                                        *)
(***************************************************************************)
\* C30: what -t mag printed are three values that a completed read of this
\* run got from the sensor
C30_MagFromDevice ==
  out.kind = "mag" =>
    /\ Len(out.mag) = 3
    /\ \E i \in 1..Len(bus) :
         /\ bus[i].op = "r" /\ bus[i].rv = bus[i].n
         /\ \A k \in 1..3 : \E j \in 1..Len(bus[i].bytes) : out.mag[k] = bus[i].bytes[j]

====
